---- MODULE Spec2Model ----
(***************************************************************************)
(* m365py: the notification decoder (M365Delegate), the cached device      *)
(* state (M365State) and the session retry loops (M365) of src/m365py.py.  *)
(*                                                                         *)
(* Byte buffers are sequences of naturals below 256.  Python floats that   *)
(* come from `raw / k` are kept exact as the pair [n |-> raw, d |-> k];    *)
(* Python ints are [n |-> v, d |-> 1]; str values are sequences of         *)
(* character codes.                                                        *)
(***************************************************************************)
EXTENDS Integers, Sequences, FiniteSets, TLC

VARIABLES
    state,                  \* M365State instance __dict__ (field name -> value)
    disjointed_messages,    \* M365Delegate.disjointed_messages
    callback,               \* M365._callback is set (TRUE) or None (FALSE)
    data,                   \* the buffer of the latest handleNotification call
    parses,                 \* parse_from_bytes calls made by the latest call
    handled,                \* handle_message calls made by the latest call
    calls,                  \* user callback invocations made by the latest call
    raised,                 \* the latest call ended by raising
    tried,                  \* list positions the latest call concatenated onto
    removed,                \* list positions the latest call deleted
    merged,                 \* every field map written to the state, in order
    n,                      \* number of handleNotification calls so far
    frame, cut, phase,      \* the split experiment: frame, split point, progress
    whole,                  \* the split experiment: the delegate fed the whole frame
    pc,                     \* the session: position in connect() / request()
    caller,                 \* which of them called _try_connect
    message,                \* the raw bytes of the command being requested
    connected,              \* the link is up
    chars,                  \* _tx_char and _rx_char are set
    ops,                    \* transport operations of the current call, in order
    failures,               \* transport failures of the current call
    stack,                  \* handleNotification calls suspended in the user callback
    begun_inside            \* calls in progress when the latest call began

vars == <<state, disjointed_messages, callback, data, parses, handled, calls,
          raised, tried, removed, merged, n, frame, cut, phase, whole,
          pc, caller, message, connected, chars, ops, failures,
          stack, begun_inside>>

decoderVars == <<state, disjointed_messages, callback, data, parses, handled,
                 calls, raised, tried, removed, merged, n>>
splitVars   == <<frame, cut, phase, whole>>
sessionVars == <<pc, caller, message, connected, chars, ops, failures>>
nestVars    == <<stack, begun_inside>>

-----------------------------------------------------------------------------
(* Bounds of the model.                                                    *)

MaxDeliveries == 4
MaxFailures == 3

-----------------------------------------------------------------------------
(* Bytes and struct.unpack ('<': little-endian, standard sizes).           *)

Take(s, k) == SubSeq(s, 1, k)
Drop(s, k) == SubSeq(s, k + 1, Len(s))

\* struct 'H' at 0-based offset o
U16(p, o) == p[o + 1] + 256 * p[o + 2]

\* struct 'h' at 0-based offset o
I16(p, o) == IF U16(p, o) >= 32768 THEN U16(p, o) - 65536 ELSE U16(p, o)

\* mutant: two bytes are skipped in front of the 32-bit field
U32_skip2(p, o) == U16(p, o + 2) + 65536 * U16(p, o + 4)

\* struct 'I' at 0-based offset o
U32(p, o) == U16(p, o) + 65536 * U16(p, o + 2)

\* struct 'B' at 0-based offset o
U8(p, o) == p[o + 1]

IntVal(v) == [n |-> v, d |-> 1]
Div(v, k) == [n |-> v, d |-> k]

EmptyDict == [k \in {} |-> 0]

\* str(b) of a bytes object of printable characters: b'...'
StrOfBytes(b) == <<98, 39>> \o b \o <<39>>

RECURSIVE HexDigits(_)
HexDigits(v) == IF v < 16 THEN <<v>> ELSE Append(HexDigits(v \div 16), v % 16)

HexChar(h) == IF h < 10 THEN 48 + h ELSE 87 + h

\* mutant: '{:04x}'.format(v)
Format04x(v) ==
    LET ds == HexDigits(v)
    IN  [i \in 1..4 |-> IF i <= 4 - Len(ds) THEN 48
                        ELSE HexChar(ds[i - (4 - Len(ds))])]

\* '{:02x}'.format(v)
Format02x(v) ==
    LET ds == HexDigits(v)
        padded == IF Len(ds) < 2 THEN <<0>> \o ds ELSE ds
    IN  [i \in 1..Len(padded) |-> HexChar(padded[i])]

-----------------------------------------------------------------------------
(* M365Message (not part of src/): frames and Message.parse_from_bytes.    *)

SYNC0 == 85
SYNC1 == 170
HeaderLen == 5
TrailerLen == 2

AttributeNames ==
    << "DISTANCE_LEFT", "SPEED", "DISTANCE_SINCE_STARTUP", "TAIL_LIGHT", "CRUISE",
       "BATTERY_INFO", "BATTERY_VOLTAGE", "BATTERY_CURRENT", "BATTERY_PERCENT",
       "GENERAL_INFO", "MOTOR_INFO", "TRIP_INFO", "BATTERY_CELL_VOLTAGES" >>

AttributeOf(b) == IF b \in 1..Len(AttributeNames) THEN AttributeNames[b] ELSE "UNKNOWN"

AttributeId(name) == CHOOSE b \in 1..Len(AttributeNames) : AttributeNames[b] = name

\* header: sync marker, declared payload length, source/destination, attribute
parse_from_bytes(buf) ==
    IF Len(buf) < HeaderLen \/ buf[1] # SYNC0 \/ buf[2] # SYNC1
    THEN [status |-> "INVALID_HEADER"]
    ELSE LET total == HeaderLen + buf[3] + TrailerLen
         IN  IF Len(buf) < total THEN [status |-> "DISJOINTED"]
             ELSE IF Len(buf) > total THEN [status |-> "INVALID_HEADER"]
             ELSE [status |-> "OK",
                   message |-> [attribute |-> AttributeOf(buf[5]),
                                payload |-> SubSeq(buf, HeaderLen + 1, HeaderLen + buf[3]),
                                raw_bytes |-> buf]]

-----------------------------------------------------------------------------
(* M365Delegate.handle_message: the decoding of one Message.               *)

Raised == [status |-> "raised", result |-> EmptyDict]
Decoded(r) == [status |-> "ok", result |-> r]

\* number of payload bytes each branch reads: struct.calcsize of its format,
\* payload[6:8] for DISTANCE_SINCE_STARTUP, payload[0] for TAIL_LIGHT and CRUISE
LayoutWidth(a) ==
    CASE a \in {"DISTANCE_LEFT", "SPEED", "BATTERY_VOLTAGE", "BATTERY_CURRENT",
                "BATTERY_PERCENT"} -> 2
      [] a = "DISTANCE_SINCE_STARTUP" -> 8
      [] a \in {"TAIL_LIGHT", "CRUISE"} -> 1
      [] a \in {"BATTERY_INFO", "TRIP_INFO"} -> 10
      [] a = "GENERAL_INFO" -> 22
      [] a = "MOTOR_INFO" -> 32
      [] a = "BATTERY_CELL_VOLTAGES" -> 27
      [] OTHER -> 0

\* the branches that slice or index the payload instead of unpacking all of it
Sliced == {"DISTANCE_SINCE_STARTUP", "TAIL_LIGHT", "CRUISE"}

\* mutant: every branch slices the payload, so trailing bytes are ignored
BadLength_lenient(a, p) == Len(p) < LayoutWidth(a)

\* struct.error / IndexError on the payload of a branch
BadLength(a, p) ==
    IF a \in Sliced THEN Len(p) < LayoutWidth(a) ELSE Len(p) # LayoutWidth(a)

\* the if/elif chain of handle_message up to the final else
Decode(m) ==
    LET p == m.payload
        a == m.attribute
    IN
    CASE a = "DISTANCE_LEFT" ->
            IF BadLength(a, p) THEN Raised
            ELSE Decoded([distance_left_km |-> Div(U16(p, 0), 100)])
      [] a = "SPEED" ->
            IF BadLength(a, p) THEN Raised
            ELSE Decoded([speed_kmh |-> Div(U16(p, 0), 100)])
      [] a = "DISTANCE_SINCE_STARTUP" ->
            IF BadLength(a, p) THEN Raised
            ELSE Decoded([distance_since_startup_km |-> Div(U16(p, 6), 1000)])
      [] a = "TAIL_LIGHT" ->
            IF BadLength(a, p) THEN Raised
            ELSE Decoded([is_tail_light_on |-> (p[1] = 2)])
      [] a = "CRUISE" ->
            IF BadLength(a, p) THEN Raised
            ELSE Decoded([is_cruise_on |-> (p[1] = 1)])
      [] a = "BATTERY_INFO" ->
            IF BadLength(a, p) THEN Raised
            ELSE Decoded([battery_capacity      |-> Div(U16(p, 0), 1000),
                          battery_percent       |-> IntVal(U16(p, 2)),
                          battery_current       |-> Div(I16(p, 4), 100),
                          battery_voltage       |-> Div(U16(p, 6), 100),
                          battery_temperature_1 |-> IntVal(U8(p, 8) - 20),
                          battery_temperature_2 |-> IntVal(U8(p, 9) - 20)])
      [] a = "BATTERY_VOLTAGE" ->
            IF BadLength(a, p) THEN Raised
            ELSE Decoded([battery_voltage |-> Div(U16(p, 0), 100)])
      [] a = "BATTERY_CURRENT" ->
            IF BadLength(a, p) THEN Raised
            ELSE Decoded([battery_current |-> Div(I16(p, 0), 100)])
      [] a = "BATTERY_PERCENT" ->
            IF BadLength(a, p) THEN Raised
            ELSE Decoded([battery_percent |-> IntVal(U16(p, 0))])
      [] a = "GENERAL_INFO" ->
            IF BadLength(a, p) THEN Raised
            ELSE LET v == Format02x(U16(p, 20))
                 IN  IF Len(v) < 3 THEN Raised
                     ELSE Decoded([serial  |-> StrOfBytes(SubSeq(p, 1, 14)),
                                   pin     |-> StrOfBytes(SubSeq(p, 15, 20)),
                                   version |-> <<86, v[1], 46, v[2], 46, v[3]>>])
      [] a = "MOTOR_INFO" ->
            IF BadLength(a, p) THEN Raised
            ELSE Decoded([error             |-> IntVal(U16(p, 0)),
                          warning           |-> IntVal(U16(p, 2)),
                          flags             |-> IntVal(U16(p, 4)),
                          workmode          |-> IntVal(U16(p, 6)),
                          battery_percent   |-> IntVal(U16(p, 8)),
                          speed_kmh         |-> Div(U16(p, 10), 100),
                          speed_average_kmh |-> Div(U16(p, 12), 100),
                          odometer_km       |-> Div(U32(p, 14), 1000),
                          trip_distance_m   |-> IntVal(I16(p, 18)),
                          uptime_s          |-> IntVal(I16(p, 20)),
                          frame_temperature |-> Div(I16(p, 22), 10)])
      [] a = "TRIP_INFO" ->
            IF BadLength(a, p) THEN Raised
            ELSE Decoded([uptime_s          |-> IntVal(U16(p, 0)),
                          trip_distance_m   |-> IntVal(U32(p, 2)),
                          frame_temperature |-> Div(I16(p, 8), 10)])
      [] a = "BATTERY_CELL_VOLTAGES" ->
            IF BadLength(a, p) THEN Raised
            ELSE Decoded([cell_1_voltage  |-> Div(U16(p, 0), 100),
                          cell_2_voltage  |-> Div(U16(p, 2), 100),
                          cell_3_voltage  |-> Div(U16(p, 4), 100),
                          cell_4_voltage  |-> Div(U16(p, 6), 100),
                          cell_5_voltage  |-> Div(U16(p, 8), 100),
                          cell_6_voltage  |-> Div(U16(p, 10), 100),
                          cell_7_voltage  |-> Div(U16(p, 12), 100),
                          cell_8_voltage  |-> Div(U16(p, 14), 100),
                          cell_9_voltage  |-> Div(U16(p, 16), 100),
                          cell_10_voltage |-> Div(U16(p, 18), 100)])
      [] OTHER -> [status |-> "unhandled", result |-> EmptyDict]

\* mutant: a field that is already set keeps its value
WriteResult_keepOld(s, r) ==
    [k \in DOMAIN s \cup DOMAIN r |-> IF k \in DOMAIN s THEN s[k] ELSE r[k]]

\* mutant: the state is replaced by the result instead of updated with it
WriteResult_replace(s, r) == [k \in DOMAIN r |-> r[k]]

\* for key, value in result.items(): state.__dict__[key] = value
WriteResult(s, r) ==
    [k \in DOMAIN s \cup DOMAIN r |-> IF k \in DOMAIN r THEN r[k] ELSE s[k]]

\* if self._m365._callback: self._m365._callback(self._m365, message, result)
CallCallback(w, m, r) ==
    IF w.callback
    THEN [w EXCEPT !.calls = Append(@, [message |-> m, result |-> r, state |-> w.state])]
    ELSE w

\* mutant: the final else does not return, so an unhandled message goes on to
\* the state write and the callback with its empty result
handle_message_fallthrough(w, m) ==
    LET d == Decode(m)
        w1 == CASE d.status = "raised" -> [w EXCEPT !.raised = TRUE]
                [] OTHER ->
                      CallCallback([w EXCEPT !.state = WriteResult(@, d.result),
                                             !.merged = Append(@, d.result)],
                                   m, d.result)
    IN  [w1 EXCEPT !.handled =
            Append(@, [message |-> m, status |-> d.status, result |-> d.result,
                       before |-> w.state, after |-> w1.state,
                       called |-> Len(w1.calls) - Len(w.calls)])]

\* mutant: the callback runs before the result is written to the state
handle_message_cbFirst(w, m) ==
    LET d == Decode(m)
        w1 == CASE d.status = "raised"    -> [w EXCEPT !.raised = TRUE]
                [] d.status = "unhandled" -> w
                [] OTHER ->
                      LET c == CallCallback(w, m, d.result)
                      IN  [c EXCEPT !.state = WriteResult(@, d.result),
                                    !.merged = Append(@, d.result)]
    IN  [w1 EXCEPT !.handled =
            Append(@, [message |-> m, status |-> d.status, result |-> d.result,
                       before |-> w.state, after |-> w1.state,
                       called |-> Len(w1.calls) - Len(w.calls)])]

\* A delegate together with the M365 it writes to:
\*   [state, disjointed_messages, callback, merged] and the logs of the current
\*   handleNotification call [parses, tried, removed, handled, calls, raised]
handle_message(w, m) ==
    LET d == Decode(m)
        w1 == CASE d.status = "raised"    -> [w EXCEPT !.raised = TRUE]
                [] d.status = "unhandled" -> w
                [] OTHER ->
                      CallCallback([w EXCEPT !.state = WriteResult(@, d.result),
                                             !.merged = Append(@, d.result)],
                                   m, d.result)
    IN  [w1 EXCEPT !.handled =
            Append(@, [message |-> m, status |-> d.status, result |-> d.result,
                       before |-> w.state, after |-> w1.state,
                       called |-> Len(w1.calls) - Len(w.calls)])]

-----------------------------------------------------------------------------
(* M365Delegate.handleNotification.                                        *)

\* mutant: the neighbour of the completed fragment is deleted
RemoveAt_neighbour(s, i) ==
    IF i < Len(s) THEN SubSeq(s, 1, i) \o SubSeq(s, i + 2, Len(s))
    ELSE SubSeq(s, 1, i - 1)

RemoveAt(s, i) == SubSeq(s, 1, i - 1) \o SubSeq(s, i + 1, Len(s))

\* mutant: the new bytes are put in front of the fragment
RECURSIVE ScanDisjointed_reversed(_, _, _)
ScanDisjointed_reversed(w, buf, i) ==
    IF i > Len(w.disjointed_messages) THEN w
    ELSE LET combined_data == buf \o w.disjointed_messages[i]
             r == parse_from_bytes(combined_data)
             w1 == [w EXCEPT !.parses = @ + 1,
                             !.tried = Append(@, [i |-> i, status |-> r.status])]
         IN  IF r.status = "OK"
             THEN LET w2 == handle_message(w1, r.message)
                  IN  IF w2.raised THEN w2
                      ELSE ScanDisjointed_reversed(
                               [w2 EXCEPT !.disjointed_messages = RemoveAt(@, i),
                                          !.removed = Append(@, i)],
                               buf, i + 1)
             ELSE ScanDisjointed_reversed(w1, buf, i + 1)

\* mutant: a fragment that did not complete keeps the bytes concatenated onto it
RECURSIVE ScanDisjointed_extend(_, _, _)
ScanDisjointed_extend(w, buf, i) ==
    IF i > Len(w.disjointed_messages) THEN w
    ELSE LET combined_data == w.disjointed_messages[i] \o buf
             r == parse_from_bytes(combined_data)
             w1 == [w EXCEPT !.parses = @ + 1,
                             !.tried = Append(@, [i |-> i, status |-> r.status])]
         IN  IF r.status = "OK"
             THEN LET w2 == handle_message(w1, r.message)
                  IN  IF w2.raised THEN w2
                      ELSE ScanDisjointed_extend(
                               [w2 EXCEPT !.disjointed_messages = RemoveAt(@, i),
                                          !.removed = Append(@, i)],
                               buf, i + 1)
             ELSE ScanDisjointed_extend(
                      [w1 EXCEPT !.disjointed_messages[i] = combined_data],
                      buf, i + 1)

\* the for loop of the INVALID_HEADER branch; i is the 1-based position of the
\* list iterator, which keeps advancing over the list the body deletes from
RECURSIVE ScanDisjointed(_, _, _)
ScanDisjointed(w, buf, i) ==
    IF i > Len(w.disjointed_messages) THEN w
    ELSE LET combined_data == w.disjointed_messages[i] \o buf
             r == parse_from_bytes(combined_data)
             w1 == [w EXCEPT !.parses = @ + 1,
                             !.tried = Append(@, [i |-> i, status |-> r.status])]
         IN  IF r.status = "OK"
             THEN LET w2 == handle_message(w1, r.message)
                  IN  IF w2.raised THEN w2
                      ELSE ScanDisjointed(
                               [w2 EXCEPT !.disjointed_messages = RemoveAt(@, i),
                                          !.removed = Append(@, i)],
                               buf, i + 1)
             ELSE ScanDisjointed(w1, buf, i + 1)

\* mutant: the empty buffer is not filtered and goes to the parser
handleNotification_noEmptyCheck(w, buf) ==
    LET w0 == [w EXCEPT !.parses = 0, !.tried = <<>>, !.removed = <<>>,
                        !.handled = <<>>, !.calls = <<>>, !.raised = FALSE]
        r == parse_from_bytes(buf)
        w1 == [w0 EXCEPT !.parses = 1]
    IN  CASE r.status = "OK" -> handle_message(w1, r.message)
          [] r.status = "DISJOINTED" ->
               [w1 EXCEPT !.disjointed_messages = Append(@, buf)]
          [] r.status = "INVALID_HEADER" -> ScanDisjointed(w1, buf, 1)
          [] OTHER -> w1

\* mutant: a buffer with an invalid header is kept as a fragment as well
handleNotification_keepInvalid(w, buf) ==
    LET w0 == [w EXCEPT !.parses = 0, !.tried = <<>>, !.removed = <<>>,
                        !.handled = <<>>, !.calls = <<>>, !.raised = FALSE]
    IN  IF Len(buf) = 0 THEN w0
        ELSE LET r == parse_from_bytes(buf)
                 w1 == [w0 EXCEPT !.parses = 1]
             IN  CASE r.status = "OK" -> handle_message(w1, r.message)
                   [] r.status = "DISJOINTED" ->
                        [w1 EXCEPT !.disjointed_messages = Append(@, buf)]
                   [] r.status = "INVALID_HEADER" ->
                        LET w2 == ScanDisjointed(w1, buf, 1)
                        IN  [w2 EXCEPT !.disjointed_messages = Append(@, buf)]
                   [] OTHER -> w1

\* mutant: a fragment is put in front of the list
handleNotification_prepend(w, buf) ==
    LET w0 == [w EXCEPT !.parses = 0, !.tried = <<>>, !.removed = <<>>,
                        !.handled = <<>>, !.calls = <<>>, !.raised = FALSE]
    IN  IF Len(buf) = 0 THEN w0
        ELSE LET r == parse_from_bytes(buf)
                 w1 == [w0 EXCEPT !.parses = 1]
             IN  CASE r.status = "OK" -> handle_message(w1, r.message)
                   [] r.status = "DISJOINTED" ->
                        [w1 EXCEPT !.disjointed_messages = <<buf>> \o @]
                   [] r.status = "INVALID_HEADER" -> ScanDisjointed(w1, buf, 1)
                   [] OTHER -> w1

\* one call of handleNotification(cHandle, buf) on delegate w; the per-call
\* logs (parses, tried, removed, handled, calls, raised) start empty
handleNotification(w, buf) ==
    LET w0 == [w EXCEPT !.parses = 0, !.tried = <<>>, !.removed = <<>>,
                        !.handled = <<>>, !.calls = <<>>, !.raised = FALSE]
    IN  IF Len(buf) = 0 THEN w0
        ELSE LET r == parse_from_bytes(buf)
                 w1 == [w0 EXCEPT !.parses = 1]
             IN  CASE r.status = "OK" -> handle_message(w1, r.message)
                   [] r.status = "DISJOINTED" ->
                        [w1 EXCEPT !.disjointed_messages = Append(@, buf)]
                   [] r.status = "INVALID_HEADER" -> ScanDisjointed(w1, buf, 1)
                   [] OTHER -> w1

\* M365Delegate.__init__ and M365.__init__: no fragments, an empty state
NewDelegate(cb) ==
    [state |-> EmptyDict, disjointed_messages |-> <<>>, callback |-> cb,
     parses |-> 0, tried |-> <<>>, removed |-> <<>>, handled |-> <<>>,
     calls |-> <<>>, raised |-> FALSE, merged |-> <<>>]

-----------------------------------------------------------------------------
(* Frames and the buffers the link delivers.                               *)

\* a frame as the scooter sends it: header, payload, trailer
Frame(a, payload, trailer) ==
    <<SYNC0, SYNC1, Len(payload), 35, a>> \o payload \o trailer

Trailer == <<7, 9>>

SpeedFrame      == Frame(AttributeId("SPEED"), <<100, 0>>, Trailer)
SpeedFrame2     == Frame(AttributeId("SPEED"), <<200, 0>>, Trailer)
PercentFrame    == Frame(AttributeId("BATTERY_PERCENT"), <<80, 0>>, Trailer)
BatteryFrame    == Frame(AttributeId("BATTERY_INFO"),
                         <<160, 15, 75, 0, 156, 255, 16, 14, 45, 46>>, Trailer)
VoltageFrame    == Frame(AttributeId("BATTERY_VOLTAGE"), <<0, 15>>, Trailer)
CurrentFrame    == Frame(AttributeId("BATTERY_CURRENT"), <<56, 255>>, Trailer)
MotorFrame      ==
    Frame(AttributeId("MOTOR_INFO"),
          <<0, 0, 0, 0, 1, 0, 2, 0, 60, 0, 220, 5, 176, 4, 64, 66, 15, 0,
            44, 1, 236, 0, 230, 0, 0, 0, 0, 0, 0, 0, 0, 0>>, Trailer)
TripFrame       == Frame(AttributeId("TRIP_INFO"),
                         <<236, 0, 1, 2, 3, 4, 5, 6, 246, 255>>, Trailer)
TooLongFrame    == Frame(AttributeId("SPEED"), <<200, 0, 0>>, Trailer)
UnknownFrame    == Frame(200, <<1, 0>>, Trailer)
TailLightFrame  == Frame(AttributeId("TAIL_LIGHT"), <<2, 0>>, Trailer)
TailLightEmpty  == Frame(AttributeId("TAIL_LIGHT"), <<>>, Trailer)
GeneralInfoLow  ==
    Frame(AttributeId("GENERAL_INFO"),
          <<49, 54, 49, 51, 50, 47, 48, 48, 48, 57, 53, 50, 57, 50,
            48, 48, 48, 48, 48, 48, 56, 0>>, Trailer)

\* the common last three bytes of SpeedFrame2, UnknownFrame and TooLongFrame
FrameTail == <<0>> \o Trailer

HeadOf(f) == Take(f, Len(f) - Len(FrameTail))

\* the first bytes of BatteryFrame: a fragment that no delivery completes
ShortHead == Take(BatteryFrame, 8)

Deliveries ==
    { <<>>, <<0>>, FrameTail,
      SpeedFrame, PercentFrame, BatteryFrame, VoltageFrame, CurrentFrame,
      MotorFrame, TripFrame, TooLongFrame, UnknownFrame,
      TailLightFrame, TailLightEmpty, GeneralInfoLow,
      HeadOf(SpeedFrame2), HeadOf(UnknownFrame), HeadOf(TooLongFrame),
      ShortHead }

-----------------------------------------------------------------------------
(* The decoder: notifications delivered one after the other.               *)

Delegate ==
    [state |-> state, disjointed_messages |-> disjointed_messages,
     callback |-> callback, parses |-> parses, tried |-> tried,
     removed |-> removed, handled |-> handled, calls |-> calls,
     raised |-> raised, merged |-> merged]

SetDelegate(w) ==
    /\ state' = w.state
    /\ disjointed_messages' = w.disjointed_messages
    /\ callback' = w.callback
    /\ parses' = w.parses
    /\ tried' = w.tried
    /\ removed' = w.removed
    /\ handled' = w.handled
    /\ calls' = w.calls
    /\ raised' = w.raised
    /\ merged' = w.merged

DecoderInit(cb) ==
    /\ state = EmptyDict
    /\ disjointed_messages = <<>>
    /\ callback = cb
    /\ parses = 0
    /\ tried = <<>>
    /\ removed = <<>>
    /\ handled = <<>>
    /\ calls = <<>>
    /\ raised = FALSE
    /\ merged = <<>>
    /\ data = <<>>
    /\ n = 0

NestIdle ==
    /\ stack = <<>>
    /\ begun_inside = 0

SplitIdle ==
    /\ frame = <<>>
    /\ cut = 0
    /\ phase = "off"
    /\ whole = NewDelegate(FALSE)

SessionIdle ==
    /\ pc = "off"
    /\ caller = "none"
    /\ message = <<>>
    /\ connected = FALSE
    /\ chars = FALSE
    /\ ops = <<>>
    /\ failures = 0

Init ==
    /\ \E cb \in BOOLEAN : DecoderInit(cb)
    /\ SplitIdle
    /\ SessionIdle
    /\ NestIdle

\* the link delivers buf: one handleNotification call, run to its end
Notify ==
    /\ n < MaxDeliveries
    /\ \E buf \in Deliveries :
          /\ data' = buf
          /\ SetDelegate(handleNotification(Delegate, buf))
    /\ n' = n + 1
    /\ UNCHANGED <<splitVars, sessionVars, nestVars>>

Next == Notify

Spec == Init /\ [][Next]_vars

-----------------------------------------------------------------------------
(* Properties of the decoder, checked under Spec.                          *)

Status(buf) == parse_from_bytes(buf).status
Delivered == n' = n + 1
Known(e) == e.message.attribute # "UNKNOWN"
NoEffect(e) == e.after = e.before /\ e.called = 0
DecodedEntries == SelectSeq(handled, LAMBDA e : e.status = "ok")

\* C2: first match wins.  One buffer with an invalid header causes at most one
\* emitted Message and at most one fragment removal, and the concatenation that
\* parsed complete is the last one attempted for that buffer.
C2_FirstMatchWins ==
    (n > 0 /\ Status(data) = "INVALID_HEADER") =>
        /\ Len(handled) <= 1
        /\ Len(removed) <= 1
        /\ \A j \in DOMAIN tried : tried[j].status = "OK" => j = Len(tried)

\* C3: no frame-level error escapes the decode boundary: handleNotification
\* returns normally for every delivered buffer.
C3_NoErrorEscapes == raised = FALSE

\* C4 as stated: a known-attribute Message whose payload length differs from the
\* width of its field layout changes no state slot and invokes no callback.
C4_MismatchNoEffect ==
    \A i \in DOMAIN handled :
        (/\ Known(handled[i])
         /\ Len(handled[i].message.payload) # LayoutWidth(handled[i].message.attribute))
        => NoEffect(handled[i])

\* C4 amended: a known-attribute Message whose payload is shorter than the bytes
\* its layout reads, or, for the branches that unpack the whole payload, longer
\* than them, changes no state slot and invokes no callback.
C4_BadLengthNoEffect ==
    \A i \in DOMAIN handled :
        LET a == handled[i].message.attribute
            len == Len(handled[i].message.payload)
        IN  (/\ Known(handled[i])
             /\ \/ len < LayoutWidth(a)
                \/ len > LayoutWidth(a) /\
                   a \notin {"DISTANCE_SINCE_STARTUP", "TAIL_LIGHT", "CRUISE"})
            => NoEffect(handled[i])

\* a too-long SPEED payload was handled while the state already held fields
C4_Witness ==
    \E i \in DOMAIN handled :
        /\ handled[i].message.attribute = "SPEED"
        /\ Len(handled[i].message.payload) = 3
        /\ handled[i].before # EmptyDict

\* C5: a Message with an unknown attribute changes no state slot and invokes no
\* callback, delivered whole or completed by reassembly.
C5_UnknownNoEffect ==
    \A i \in DOMAIN handled :
        ~Known(handled[i]) => NoEffect(handled[i]) /\ handled[i].status = "unhandled"

\* an unknown-attribute Message completed by reassembly, callback set, state set
C5_Witness ==
    /\ callback
    /\ state # EmptyDict
    /\ removed # <<>>
    /\ \E i \in DOMAIN handled : ~Known(handled[i])

\* C6: a buffer classified INVALID_HEADER, delivered while no fragment is
\* pending, emits nothing, calls nothing back, and leaves the state unchanged and
\* the fragment list empty.
C6_InvalidHeaderNoFragments ==
    [][(/\ Delivered
        /\ Status(data') = "INVALID_HEADER"
        /\ disjointed_messages = <<>>)
       => (/\ handled' = <<>>
           /\ calls' = <<>>
           /\ state' = state
           /\ disjointed_messages' = <<>>)]_vars

\* a non-empty invalid buffer was delivered to a delegate without fragments
C6_Witness ==
    /\ n > 1
    /\ data # <<>>
    /\ Status(data) = "INVALID_HEADER"
    /\ parses = 1
    /\ disjointed_messages = <<>>
    /\ state # EmptyDict

\* C7: a zero-length delivery never reaches the parser and changes neither the
\* state nor the fragment list.
C7_EmptyDelivery ==
    [][(Delivered /\ data' = <<>>)
       => (/\ parses' = 0
           /\ handled' = <<>>
           /\ state' = state
           /\ disjointed_messages' = disjointed_messages)]_vars

\* an empty buffer was delivered while fragments were pending
C7_Witness ==
    /\ n > 1
    /\ data = <<>>
    /\ disjointed_messages # <<>>
    /\ state # EmptyDict

LastWriter(k) ==
    LET I == {i \in DOMAIN merged : k \in DOMAIN merged[i]}
        last == CHOOSE i \in I : \A j \in I : j <= i
    IN  merged[last][k]

\* C8: last writer wins.  Every state field holds the value of the most recently
\* merged field map that contains it, and no other field is present.
C8_LastWriterWins ==
    /\ DOMAIN state = UNION {DOMAIN merged[i] : i \in DOMAIN merged}
    /\ \A k \in DOMAIN state : state[k] = LastWriter(k)

\* a shared field was written by two different attributes with different values
C8_Witness ==
    \E k \in {"battery_percent", "speed_kmh", "frame_temperature",
              "battery_voltage", "battery_current"} :
        \E i, j \in DOMAIN merged :
            /\ i < j
            /\ k \in DOMAIN merged[i] /\ k \in DOMAIN merged[j]
            /\ DOMAIN merged[i] # DOMAIN merged[j]
            /\ merged[i][k] # merged[j][k]
            /\ state[k] = merged[j][k]

\* C9: with a callback set, one handleNotification call invokes it exactly once
\* per decoded frame, in order, with that frame's Message and field map, when
\* every field of the map is already in the state; no decoded frame, no call.
C9_CallbackOncePerFrame ==
    callback =>
        /\ Len(calls) = Len(DecodedEntries)
        /\ \A j \in DOMAIN calls :
              /\ calls[j].message = DecodedEntries[j].message
              /\ calls[j].result = DecodedEntries[j].result
              /\ \A k \in DOMAIN calls[j].result :
                    /\ k \in DOMAIN calls[j].state
                    /\ calls[j].state[k] = calls[j].result[k]
        /\ \A i \in DOMAIN handled :
              /\ handled[i].called = (IF handled[i].status = "ok" THEN 1 ELSE 0)
              /\ \/ handled[i].message.raw_bytes = data
                 \/ /\ Status(data) = "INVALID_HEADER"
                    /\ Len(handled[i].message.raw_bytes) > Len(data)
                    /\ Drop(handled[i].message.raw_bytes,
                            Len(handled[i].message.raw_bytes) - Len(data)) = data

\* a reassembled frame was decoded and called back, overwriting an older value
C9_Witness ==
    /\ callback
    /\ removed # <<>>
    /\ Len(calls) >= 1
    /\ calls[1].state # calls[1].result

-----------------------------------------------------------------------------
(* The split experiment: one frame delivered in two halves to one delegate *)
(* and whole to another, both starting without fragments.                  *)

\* a BATTERY_INFO frame whose payload starts like a frame header
NestedFrame ==
    Frame(AttributeId("BATTERY_INFO"),
          <<SYNC0, SYNC1, 9, 35, 2, 0, 0, 0, 45, 46>>, Trailer)

LongStartupFrame ==
    Frame(AttributeId("DISTANCE_SINCE_STARTUP"),
          <<0, 0, 0, 0, 0, 0, 208, 7, 0, 0>>, Trailer)

SplitFrames ==
    { SpeedFrame, BatteryFrame, TripFrame, MotorFrame, UnknownFrame, TooLongFrame,
      TailLightFrame, TailLightEmpty, GeneralInfoLow, LongStartupFrame, NestedFrame }

FirstHalf == Take(frame, cut)
SecondHalf == Drop(frame, cut)

SplitInit ==
    /\ \E cb \in BOOLEAN :
          /\ DecoderInit(cb)
          /\ whole = NewDelegate(cb)
    /\ \E f \in SplitFrames : \E c \in 1..(Len(f) - 1) :
          /\ frame = f
          /\ cut = c
    /\ phase = "start"
    /\ SessionIdle
    /\ NestIdle

\* an earlier frame, delivered to both delegates, so that the state is not empty
DeliverEarlier ==
    /\ phase = "start"
    /\ n = 0
    /\ \E buf \in {SpeedFrame, BatteryFrame} :
          /\ data' = buf
          /\ SetDelegate(handleNotification(Delegate, buf))
          /\ whole' = handleNotification(whole, buf)
    /\ n' = n + 1
    /\ UNCHANGED <<frame, cut, phase, sessionVars, nestVars>>

DeliverFirst ==
    /\ phase = "start"
    /\ data' = FirstHalf
    /\ SetDelegate(handleNotification(Delegate, FirstHalf))
    /\ n' = n + 1
    /\ phase' = "first"
    /\ UNCHANGED <<frame, cut, whole, sessionVars, nestVars>>

DeliverSecond ==
    /\ phase = "first"
    /\ data' = SecondHalf
    /\ SetDelegate(handleNotification(Delegate, SecondHalf))
    /\ n' = n + 1
    /\ phase' = "second"
    /\ UNCHANGED <<frame, cut, whole, sessionVars, nestVars>>

DeliverWhole ==
    /\ phase = "second"
    /\ whole' = handleNotification(whole, frame)
    /\ phase' = "done"
    /\ UNCHANGED <<decoderVars, frame, cut, sessionVars, nestVars>>

SplitNext == DeliverEarlier \/ DeliverFirst \/ DeliverSecond \/ DeliverWhole

SpecSplit == SplitInit /\ [][SplitNext]_vars

Results(h) == [i \in DOMAIN h |-> [status |-> h[i].status, result |-> h[i].result]]

\* what the caller observes of the delivery of the frame
SameOutcome ==
    /\ Results(handled) = Results(whole.handled)
    /\ state = whole.state
    /\ calls = whole.calls
    /\ Len(calls) <= 1

\* C1 as stated: for every frame and every split point, the two halves in
\* order give the decoded field map, the state and the callback invocation of
\* the whole frame.
C1_SplitEqualsWhole == phase = "done" => SameOutcome

\* C1 amended: the same, for the split points whose first half is classified
\* DISJOINTED and whose second half is classified INVALID_HEADER.
C1_SplitEqualsWholeWhenTailInvalid ==
    (/\ phase = "done"
     /\ Status(FirstHalf) = "DISJOINTED"
     /\ Status(SecondHalf) = "INVALID_HEADER")
    => SameOutcome

\* a frame split after its header was reassembled, decoded and called back, over
\* a state that already held other fields
C1_Witness ==
    /\ phase = "done"
    /\ Status(FirstHalf) = "DISJOINTED"
    /\ Status(SecondHalf) = "INVALID_HEADER"
    /\ callback
    /\ Len(calls) = 1
    /\ removed = <<1>>
    /\ DOMAIN state # DOMAIN calls[1].result

-----------------------------------------------------------------------------
(* The session: M365.connect, M365._try_connect and M365.request.  Every   *)
(* transport operation either succeeds or raises.                          *)

\* raw bytes of two commands a caller may request
Commands == { Frame(AttributeId("SPEED"), <<2>>, Trailer),
              Frame(AttributeId("BATTERY_INFO"), <<10>>, Trailer) }

Op(name, ok, bytes) == [op |-> name, ok |-> ok, bytes |-> bytes]

\* a transport operation raises
Fails == failures' = failures + 1
MayFail == failures < MaxFailures

SessionInit ==
    /\ \E cb \in BOOLEAN : DecoderInit(cb)
    /\ SplitIdle
    /\ NestIdle
    /\ pc = "idle"
    /\ caller = "none"
    /\ message = <<>>
    /\ connected = FALSE
    /\ chars = FALSE
    /\ ops = <<>>
    /\ failures = 0

\* the caller calls connect()
StartConnect ==
    /\ pc = "idle"
    /\ pc' = "tc_connect"
    /\ caller' = "connect"
    /\ ops' = <<>>
    /\ failures' = 0
    /\ UNCHANGED <<message, connected, chars, decoderVars, splitVars, nestVars>>

\* the caller calls request(message)
StartRequest ==
    /\ pc = "idle"
    /\ \E m \in Commands : message' = m
    /\ pc' = "req_write"
    /\ caller' = "request"
    /\ ops' = <<>>
    /\ failures' = 0
    /\ UNCHANGED <<connected, chars, decoderVars, splitVars, nestVars>>

\* _try_connect: super().connect(mac_address, addrType)
TryConnect_connect ==
    /\ pc = "tc_connect"
    /\ \/ /\ connected' = TRUE
          /\ pc' = "tc_notify1"
          /\ ops' = Append(ops, Op("connect", TRUE, <<>>))
          /\ UNCHANGED failures
       \/ /\ MayFail /\ Fails
          /\ pc' = "tc_connect"
          /\ ops' = Append(ops, Op("connect", FALSE, <<>>))
          /\ UNCHANGED connected
    /\ UNCHANGED <<caller, message, chars, decoderVars, splitVars, nestVars>>

\* _try_connect: writeCharacteristic(0xc, ...) and writeCharacteristic(0x12, ...)
TryConnect_notify ==
    /\ pc \in {"tc_notify1", "tc_notify2"}
    /\ \/ /\ pc' = (IF pc = "tc_notify1" THEN "tc_notify2" ELSE "tc_chars")
          /\ ops' = Append(ops, Op("writeCharacteristic", TRUE, <<>>))
          /\ UNCHANGED failures
       \/ /\ MayFail /\ Fails
          /\ pc' = "tc_connect"
          /\ ops' = Append(ops, Op("writeCharacteristic", FALSE, <<>>))
    /\ UNCHANGED <<caller, message, connected, chars, decoderVars, splitVars, nestVars>>

\* _try_connect: getCharacteristics, _find_characteristic, the two log.debug
\* lines (which raise when a characteristic was not found), break
TryConnect_chars ==
    /\ pc = "tc_chars"
    /\ \/ /\ chars' = TRUE
          /\ pc' = (IF caller = "request" THEN "req_write" ELSE "conn_delegate")
          /\ ops' = Append(Append(ops, Op("getCharacteristics", TRUE, <<>>)),
                           Op("_try_connect returned", TRUE, <<>>))
          /\ UNCHANGED failures
       \/ /\ MayFail /\ Fails
          /\ pc' = "tc_connect"
          /\ ops' = Append(ops, Op("getCharacteristics", FALSE, <<>>))
          /\ UNCHANGED chars
    /\ UNCHANGED <<caller, message, connected, decoderVars, splitVars, nestVars>>

\* connect: withDelegate(M365Delegate(self)), return
Connect_withDelegate ==
    /\ pc = "conn_delegate"
    /\ pc' = "idle"
    /\ caller' = "none"
    /\ disjointed_messages' = <<>>
    /\ UNCHANGED <<state, callback, data, parses, handled, calls, raised, tried,
                   removed, merged, n, message, connected, chars, ops, failures,
                   splitVars, nestVars>>

\* request: self._tx_char.write(message._raw_bytes); without _tx_char the
\* attribute lookup raises
Request_write ==
    /\ pc = "req_write"
    /\ \/ /\ chars
          /\ pc' = "req_read"
          /\ ops' = Append(ops, Op("write", TRUE, message))
          /\ UNCHANGED failures
       \/ /\ ~chars \/ MayFail
          /\ Fails
          /\ pc' = "req_disconnect"
          /\ ops' = Append(ops, Op("write", FALSE, message))
    /\ UNCHANGED <<caller, message, connected, chars, decoderVars, splitVars, nestVars>>

\* request: self._rx_char.read(), break
Request_read ==
    /\ pc = "req_read"
    /\ \/ /\ pc' = "req_done"
          /\ ops' = Append(ops, Op("read", TRUE, <<>>))
          /\ UNCHANGED failures
       \/ /\ MayFail /\ Fails
          /\ pc' = "req_disconnect"
          /\ ops' = Append(ops, Op("read", FALSE, <<>>))
    /\ UNCHANGED <<caller, message, connected, chars, decoderVars, splitVars, nestVars>>

\* request, except branch: self.disconnect(); when it raises, the exception
\* leaves request
Request_disconnect ==
    /\ pc = "req_disconnect"
    /\ \/ /\ connected' = FALSE
          /\ pc' = "tc_connect"
          /\ ops' = Append(ops, Op("disconnect", TRUE, <<>>))
          /\ UNCHANGED failures
       \/ /\ MayFail /\ Fails
          /\ pc' = "req_raised"
          /\ ops' = Append(ops, Op("disconnect", FALSE, <<>>))
          /\ UNCHANGED connected
    /\ UNCHANGED <<caller, message, chars, decoderVars, splitVars, nestVars>>

\* request returns, or its exception reaches the caller
Request_end ==
    /\ pc \in {"req_done", "req_raised"}
    /\ pc' = "idle"
    /\ caller' = "none"
    /\ UNCHANGED <<message, connected, chars, ops, failures, decoderVars, splitVars, nestVars>>

SessionNext ==
    \/ StartConnect
    \/ StartRequest
    \/ TryConnect_connect
    \/ TryConnect_notify
    \/ TryConnect_chars
    \/ Connect_withDelegate
    \/ Request_write
    \/ Request_read
    \/ Request_disconnect
    \/ Request_end

SpecSession == SessionInit /\ [][SessionNext]_vars

WriteOrRead(o) == o.op \in {"write", "read"}

\* C10: when request has ended, every failed write or read of it was followed by
\* a disconnect, then a _try_connect that returned, then one more write of the
\* same command bytes.
C10_ReconnectAndResubmit ==
    pc \in {"req_done", "req_raised"} =>
        \A i \in DOMAIN ops :
            (WriteOrRead(ops[i]) /\ ~ops[i].ok) =>
                \E d, c, r \in DOMAIN ops :
                    /\ i < d /\ d < c /\ c < r
                    /\ d = i + 1 /\ ops[d].op = "disconnect" /\ ops[d].ok
                    /\ ops[c].op = "_try_connect returned"
                    /\ r = c + 1 /\ ops[r].op = "write" /\ ops[r].bytes = message
                    /\ \A j \in (i + 1)..(r - 1) : ~WriteOrRead(ops[j])

\* C11: no transport error of an operation used by connect() or request() is
\* raised out of them: request never ends by raising.
C11_NoTransportErrorEscapes == pc # "req_raised"

-----------------------------------------------------------------------------
(* M365State: the snapshot of the state.                                   *)

\* the class attributes of M365State, all None
ClassSlots ==
    {"speed_kmh", "speed_average_kmh", "distance_left_km", "odometer_km",
     "distance_since_startup_km", "frame_temperature", "is_light_on",
     "is_in_cruise_mode", "battery_percent", "battery_voltage", "battery_capacity",
     "battery_current", "battery_temperature_1", "battery_temperature_2"}

\* the field names handle_message can write
KnownFields ==
    {"distance_left_km", "speed_kmh", "distance_since_startup_km",
     "is_tail_light_on", "is_cruise_on", "battery_capacity", "battery_percent",
     "battery_current", "battery_voltage", "battery_temperature_1",
     "battery_temperature_2", "serial", "pin", "version", "error", "warning",
     "flags", "workmode", "speed_average_kmh", "odometer_km", "trip_distance_m",
     "uptime_s", "frame_temperature", "cell_1_voltage", "cell_2_voltage",
     "cell_3_voltage", "cell_4_voltage", "cell_5_voltage", "cell_6_voltage",
     "cell_7_voltage", "cell_8_voltage", "cell_9_voltage", "cell_10_voltage"}

\* def as_dict(self): return self.__dict__   (the instance attributes only)
as_dict(s) == s

\* to_json: json.dumps of the same __dict__; its keys
to_json_keys(s) == DOMAIN as_dict(s)

\* C13: in every reachable state the snapshot has one entry for every known
\* field name (a value, or unknown when never merged).
C13_SnapshotHasEveryField ==
    /\ KnownFields \subseteq DOMAIN as_dict(state)
    /\ KnownFields \subseteq to_json_keys(state)

-----------------------------------------------------------------------------
(* Frame effects of the decoder, checked under Spec.                       *)

\* slot k has another value after the step, or is no longer there
SlotChanged(k) ==
    \/ k \in DOMAIN state /\ k \notin DOMAIN state'
    \/ k \in DOMAIN state' /\ k \notin DOMAIN state
    \/ k \in DOMAIN state /\ k \in DOMAIN state' /\ state'[k] # state[k]

\* C14: a state slot changes only in a step that decodes a Message whose field
\* map contains the slot's name; every other slot, and every slot in a step that
\* decodes nothing, stays as it was.
C14_SlotChangesOnlyByMerge ==
    [][\A k \in DOMAIN state \cup DOMAIN state' :
          SlotChanged(k) =>
              /\ Delivered
              /\ \E i \in DOMAIN handled' :
                    /\ handled'[i].status = "ok"
                    /\ k \in DOMAIN handled'[i].result]_vars

\* a decoded frame overwrote one slot and left the slots of an earlier frame
C14_Witness ==
    /\ n > 1
    /\ \E i \in DOMAIN handled :
          /\ handled[i].status = "ok"
          /\ handled[i].before # handled[i].after
          /\ \E k \in DOMAIN handled[i].result : k \in DOMAIN handled[i].before
          /\ \E k \in DOMAIN state : k \notin DOMAIN handled[i].result

\* C17: a delivery classified DISJOINTED is appended at the end of the fragment
\* list and does nothing else: nothing is emitted or called back, the state and
\* the fragments already pending are unchanged.
C17_DisjointedIsAppended ==
    [][(Delivered /\ Status(data') = "DISJOINTED")
       => (/\ disjointed_messages' = Append(disjointed_messages, data')
           /\ handled' = <<>>
           /\ calls' = <<>>
           /\ state' = state)]_vars

\* a fragment was appended behind a different pending fragment, state not empty
C17_Witness ==
    /\ Status(data) = "DISJOINTED"
    /\ Len(disjointed_messages) >= 2
    /\ disjointed_messages[Len(disjointed_messages)] = data
    /\ disjointed_messages[1] # data
    /\ state # EmptyDict

\* the fragments of the list that the buffer completes
Completes(list, buf) == {i \in DOMAIN list : Status(list[i] \o buf) = "OK"}

\* list without the positions in P
Without(list, P) ==
    LET keep(i) == i \notin P
        idx == SelectSeq([i \in DOMAIN list |-> i], keep)
    IN  [j \in DOMAIN idx |-> list[idx[j]]]

InvalidDelivery == Delivered /\ data' # <<>> /\ Status(data') = "INVALID_HEADER"

\* C18: on a buffer with an invalid header, the fragments whose concatenation
\* does not parse complete stay in the list with their bytes untouched; when no
\* fragment completes, the buffer is dropped: fragment list and state are as
\* before and nothing is emitted.
C18_InvalidBufferDropped ==
    [][InvalidDelivery =>
        /\ \E P \in SUBSET Completes(disjointed_messages, data') :
              disjointed_messages' = Without(disjointed_messages, P)
        /\ Completes(disjointed_messages, data') = {} =>
              /\ disjointed_messages' = disjointed_messages
              /\ state' = state
              /\ handled' = <<>>
              /\ calls' = <<>>]_vars

\* two different pending fragments were tried with a buffer that completes none
C18_Witness ==
    /\ data # <<>>
    /\ Status(data) = "INVALID_HEADER"
    /\ Len(tried) >= 2
    /\ \A j \in DOMAIN tried : tried[j].status # "OK"
    /\ disjointed_messages[1] # disjointed_messages[2]
    /\ state # EmptyDict

TriedPositions(t) == {t[j].i : j \in DOMAIN t}

\* parts of C19 that do not depend on which fragments are tried: a fragment
\* leaves the list only in a step whose buffer has an invalid header and
\* completes that very fragment; all others stay, in their order
FragmentsLeaveOnlyCompleted ==
    /\ InvalidDelivery =>
          \E P \in SUBSET Completes(disjointed_messages, data') :
              disjointed_messages' = Without(disjointed_messages, P)
    /\ (Delivered /\ ~InvalidDelivery) =>
          \/ disjointed_messages' = disjointed_messages
          \/ disjointed_messages' = Append(disjointed_messages, data')

\* C19 as stated: no fragment expiry, and every pending fragment is tried on
\* every delivery with an invalid header.
C19_NoExpiryAllTried ==
    [][/\ FragmentsLeaveOnlyCompleted
       /\ InvalidDelivery =>
             TriedPositions(tried') = DOMAIN disjointed_messages]_vars

\* C19 amended: no fragment expiry, and on every delivery with an invalid header
\* every pending fragment up to the first one the buffer completes is tried (all
\* of them when it completes none).
C19_NoExpiryTriedUpToFirstMatch ==
    [][/\ FragmentsLeaveOnlyCompleted
       /\ InvalidDelivery =>
             \A p \in DOMAIN disjointed_messages :
                 (\A q \in 1..(p - 1) :
                      q \notin Completes(disjointed_messages, data'))
                 => p \in TriedPositions(tried')]_vars

\* a buffer completed and removed the first fragment while a fragment that it
\* does not complete stayed pending behind it
C19_Witness ==
    /\ Status(data) = "INVALID_HEADER"
    /\ removed = <<1>>
    /\ disjointed_messages # <<>>
    /\ Status(disjointed_messages[1] \o data) # "OK"

-----------------------------------------------------------------------------
(* The TRIP_INFO and GENERAL_INFO branches on payloads drawn from bounded  *)
(* byte sets: one frame is chosen, then delivered to a fresh delegate.     *)

TripBytes == {1, 255}

\* bytes 5 and 7 (0-based) are the most significant byte of a 32-bit field in
\* one of the two layouts: they stay below 128 so that the field stays below
\* 2^31 (no arithmetic of the decoder depends on the size of the value)
Below128(q) == [i \in DOMAIN q |-> IF i \in {6, 8} /\ q[i] > 127 THEN 127 ELSE q[i]]
TripPayloads ==
    {Below128(q) : q \in [1..10 -> TripBytes] \cup [1..12 -> TripBytes]}

VersionBytes == {0, 1, 8, 15, 16, 56, 171, 255}
SerialAndPin == SubSeq(GeneralInfoLow, HeaderLen + 1, HeaderLen + 20)

DecodeFrames ==
    {Frame(AttributeId("TRIP_INFO"), p, Trailer) : p \in TripPayloads}
    \cup {Frame(AttributeId("GENERAL_INFO"), SerialAndPin \o <<lo, hi>>, Trailer) :
              lo \in VersionBytes, hi \in VersionBytes}

DecodeInit ==
    /\ \E cb \in BOOLEAN : DecoderInit(cb)
    /\ frame \in DecodeFrames
    /\ cut = 0
    /\ phase = "off"
    /\ whole = NewDelegate(FALSE)
    /\ SessionIdle
    /\ NestIdle

DecodeNotify ==
    /\ n = 0
    /\ data' = frame
    /\ SetDelegate(handleNotification(Delegate, frame))
    /\ n' = n + 1
    /\ UNCHANGED <<splitVars, sessionVars, nestVars>>

DecodeNext == DecodeNotify

SpecDecode == DecodeInit /\ [][DecodeNext]_vars

Signed16(v) == IF v >= 32768 THEN v - 65536 ELSE v

\* C15 as stated: uptime_s u16 at byte 0, two bytes skipped, trip_distance_m u32
\* at byte 4, two bytes skipped, frame_temperature i16 at byte 10 divided by 10:
\* a payload of 12 bytes.
C15_TripInfoLayoutAsStated ==
    \A i \in DOMAIN handled :
        LET e == handled[i]
            p == e.message.payload
        IN  e.message.attribute = "TRIP_INFO" =>
              /\ Len(p) = 12 => e.status = "ok"
              /\ e.status = "ok" =>
                    /\ Len(p) = 12
                    /\ e.result =
                         [uptime_s |-> IntVal(p[1] + 256 * p[2]),
                          trip_distance_m |->
                              IntVal(p[5] + 256 * p[6] + 65536 * p[7]
                                     + 16777216 * p[8]),
                          frame_temperature |->
                              Div(Signed16(p[11] + 256 * p[12]), 10)]

\* C15 amended: TRIP_INFO is decoded from a payload of exactly 10 bytes,
\* little-endian: uptime_s u16 at byte 0, trip_distance_m u32 at byte 2 (no
\* skip in front of it), two bytes skipped, frame_temperature i16 at byte 8
\* divided by 10; uptime_s and trip_distance_m are not scaled.
C15_TripInfoLayout ==
    \A i \in DOMAIN handled :
        LET e == handled[i]
            p == e.message.payload
        IN  e.message.attribute = "TRIP_INFO" =>
              /\ e.status = "ok" <=> Len(p) = 10
              /\ e.status = "ok" =>
                    e.result =
                         [uptime_s |-> IntVal(p[1] + 256 * p[2]),
                          trip_distance_m |->
                              IntVal(p[3] + 256 * p[4] + 65536 * p[5]
                                     + 16777216 * p[6]),
                          frame_temperature |->
                              Div(Signed16(p[9] + 256 * p[10]), 10)]

\* a TRIP_INFO payload was decoded whose bytes 2..5 differ from its bytes 4..7
\* and whose temperature is negative
C15_Witness ==
    /\ handled # <<>>
    /\ handled[1].message.attribute = "TRIP_INFO"
    /\ handled[1].status = "ok"
    /\ SubSeq(handled[1].message.payload, 3, 6)
           # SubSeq(handled[1].message.payload, 5, 8)
    /\ handled[1].result.frame_temperature.n < 0
    /\ state = handled[1].result

HexChars == <<48, 49, 50, 51, 52, 53, 54, 55, 56, 57, 97, 98, 99, 100, 101, 102>>
Nibble(w, k) == HexChars[((w \div (16 ^ k)) % 16) + 1]
VersionWord(p) == p[21] + 256 * p[22]
Version(a, b, c) == <<86, a, 46, b, 46, c>>

GeneralInfoEntries ==
    SelectSeq(handled, LAMBDA e : /\ e.message.attribute = "GENERAL_INFO"
                                  /\ Len(e.message.payload) = 22)

\* C16 as stated: every version word is rendered, and 0x0801 is rendered
\* 'V0.8.1'.
C16_VersionAsStated ==
    \A i \in DOMAIN GeneralInfoEntries :
        LET e == GeneralInfoEntries[i]
        IN  /\ e.status = "ok"
            /\ VersionWord(e.message.payload) = 2049 =>
                  e.result.version = Version(48, 56, 49)

\* C16 amended: the version is 'V{d0}.{d1}.{d2}' with d0, d1, d2 the first three
\* digits of the version word written in lower-case hexadecimal without leading
\* zeros; a word below 0x100 has fewer than three digits and the decode raises;
\* 0x0801 is rendered 'V8.0.1' and 0x0138 'V1.3.8'.
C16_VersionRendering ==
    \A i \in DOMAIN GeneralInfoEntries :
        LET e == GeneralInfoEntries[i]
            w == VersionWord(e.message.payload)
        IN  /\ w < 256 => e.status = "raised" /\ NoEffect(e)
            /\ (w >= 256 /\ w < 4096) =>
                  /\ e.status = "ok"
                  /\ e.result.version =
                         Version(Nibble(w, 2), Nibble(w, 1), Nibble(w, 0))
            /\ w >= 4096 =>
                  /\ e.status = "ok"
                  /\ e.result.version =
                         Version(Nibble(w, 3), Nibble(w, 2), Nibble(w, 1))
            /\ w = 2049 => e.result.version = Version(56, 48, 49)
            /\ w = 312 => e.result.version = Version(49, 51, 56)

\* the version word 0x0801 was decoded and merged into the state
C16_Witness ==
    /\ GeneralInfoEntries # <<>>
    /\ VersionWord(GeneralInfoEntries[1].message.payload) = 2049
    /\ GeneralInfoEntries[1].status = "ok"
    /\ "version" \in DOMAIN state
    /\ state.version = Version(56, 48, 49)

-----------------------------------------------------------------------------
(* Termination of the retry loops.  The interpreter always runs the next   *)
(* statement of a call in progress; whether the caller starts a call is    *)
(* left open.  Transport failures are finitely many (MaxFailures per call),*)
(* so from some point on every transport operation succeeds.               *)

ProgramStep ==
    \/ TryConnect_connect
    \/ TryConnect_notify
    \/ TryConnect_chars
    \/ Connect_withDelegate
    \/ Request_write
    \/ Request_read
    \/ Request_disconnect
    \/ Request_end

SpecSessionFair == SessionInit /\ [][SessionNext]_vars /\ WF_vars(ProgramStep)

\* request has returned only after a successful write of the command's bytes
\* followed by a successful read
ReturnsAfterSuccess ==
    pc = "req_done" =>
        /\ Len(ops) >= 2
        /\ ops[Len(ops) - 1] = Op("write", TRUE, message)
        /\ ops[Len(ops)] = Op("read", TRUE, <<>>)
        /\ connected

\* every started connect() gets through _try_connect and returns
ConnectReturns == (caller = "connect") ~> (pc = "idle" /\ connected /\ chars)

\* every started request(message) returns
RequestReturns == (caller = "request") ~> (pc = "req_done")

\* C20: once the transport operations succeed, every started _try_connect() and
\* request(message) eventually returns, and request returns only after an
\* attempt whose write of the command's bytes and following read both succeeded
\* on the connected session.
C20_RetryLoopsReturn ==
    /\ []ReturnsAfterSuccess
    /\ ConnectReturns
    /\ RequestReturns

-----------------------------------------------------------------------------
(* Notifications that arrive while the user callback is running.  M365 is  *)
(* a bluepy Peripheral: while _tx_char.write and _rx_char.read wait for the*)
(* answer of the device, the Peripheral hands every notification that      *)
(* arrives to delegate.handleNotification, on the same thread.  A user     *)
(* callback that calls request() therefore waits inside handle_message     *)
(* while further handleNotification calls run on the same delegate.        *)

\* buffers delivered in this experiment: none of them makes the decode raise
NestedDeliveries ==
    { <<>>, SpeedFrame, HeadOf(SpeedFrame2), HeadOf(UnknownFrame), ShortHead,
      FrameTail }

\* a handleNotification call that waits for the user callback to return: the
\* buffer it was given and the list position whose `del` is still to come (0
\* when the buffer itself parsed complete); in_request while the callback is
\* inside request()
Suspended(buf, i) ==
    [buf |-> buf, i |-> i, in_request |-> FALSE, requested |-> FALSE]

Top == stack[Len(stack)]
Below == SubSeq(stack, 1, Len(stack) - 1)

\* what a stretch of a handleNotification call has come to: the delegate w, and
\* whether the call now waits in the user callback; then at is the list position
\* whose `del` comes after the callback (0 when the buffer itself parsed
\* complete)
Ended(w) == [w |-> w, waits |-> FALSE, at |-> 0]
Waiting(w, i) == [w |-> w, waits |-> TRUE, at |-> i]

\* handle_message has returned w2 from w1
AfterMessage(w1, w2, i) ==
    IF Len(w2.calls) > Len(w1.calls) THEN Waiting(w2, i) ELSE Ended(w2)

Deleted(w, i) ==
    [w EXCEPT !.disjointed_messages = RemoveAt(@, i), !.removed = Append(@, i)]

Tried(w, i, status) ==
    [w EXCEPT !.parses = @ + 1,
              !.tried = Append(@, [i |-> i, status |-> status])]

\* the for loop of the INVALID_HEADER branch from list position i up to the
\* first user callback, or to its end
RECURSIVE ScanToCallback(_, _, _)

\* the loop body at position i after handle_message has returned w2 from w1: an
\* error leaves the loop, a callback suspends it, otherwise `del` and go on
AfterCompleted(w1, w2, buf, i) ==
    IF w2.raised THEN Ended(w2)
    ELSE IF Len(w2.calls) > Len(w1.calls) THEN Waiting(w2, i)
    ELSE ScanToCallback(Deleted(w2, i), buf, i + 1)

ScanBody(w1, r, buf, i) ==
    IF r.status = "OK"
    THEN AfterCompleted(w1, handle_message(w1, r.message), buf, i)
    ELSE ScanToCallback(w1, buf, i + 1)

ScanStep(w, r, buf, i) == ScanBody(Tried(w, i, r.status), r, buf, i)

ScanToCallback(w, buf, i) ==
    IF i > Len(w.disjointed_messages) THEN Ended(w)
    ELSE ScanStep(w, parse_from_bytes(w.disjointed_messages[i] \o buf), buf, i)

Parsed(w1, r, buf) ==
    CASE r.status = "OK" ->
            AfterMessage(w1, handle_message(w1, r.message), 0)
      [] r.status = "DISJOINTED" ->
            Ended([w1 EXCEPT !.disjointed_messages = Append(@, buf)])
      [] r.status = "INVALID_HEADER" -> ScanToCallback(w1, buf, 1)
      [] OTHER -> Ended(w1)

FreshLogs(w, p) ==
    [w EXCEPT !.parses = p, !.tried = <<>>, !.removed = <<>>,
              !.handled = <<>>, !.calls = <<>>, !.raised = FALSE]

\* handleNotification(cHandle, buf) up to its first user callback, or to its end
BeginNotification(w, buf) ==
    IF Len(buf) = 0 THEN Ended(FreshLogs(w, 0))
    ELSE Parsed(FreshLogs(w, 1), parse_from_bytes(buf), buf)

\* the call that began with b waits in the user callback, or has ended
Push(s, buf, b) == IF b.waits THEN Append(s, Suspended(buf, b.at)) ELSE s

\* the Peripheral hands a notification to the delegate: from its main loop when
\* no call is in progress, or from inside the write or read of a request()
\* issued by the user callback
Nested_handleNotification ==
    /\ n < MaxDeliveries
    /\ IF stack = <<>> THEN TRUE ELSE Top.in_request
    /\ \E buf \in NestedDeliveries :
          /\ data' = buf
          /\ SetDelegate(BeginNotification(Delegate, buf).w)
          /\ stack' = Push(stack, buf, BeginNotification(Delegate, buf))
    /\ begun_inside' = Len(stack)
    /\ n' = n + 1
    /\ UNCHANGED <<splitVars, sessionVars>>

\* the user callback calls request(message): it waits in write and read
Callback_request ==
    /\ stack # <<>>
    /\ ~Top.in_request
    /\ ~Top.requested
    /\ stack' = [stack EXCEPT ![Len(stack)].in_request = TRUE,
                              ![Len(stack)].requested = TRUE]
    /\ UNCHANGED <<begun_inside, decoderVars, splitVars, sessionVars>>

\* write and read have succeeded: request returns to the user callback
Request_returns ==
    /\ stack # <<>>
    /\ Top.in_request
    /\ stack' = [stack EXCEPT ![Len(stack)].in_request = FALSE]
    /\ UNCHANGED <<begun_inside, decoderVars, splitVars, sessionVars>>

\* the suspended call t goes on after its callback: `del` at its position, then
\* the loop from the next position
Resume(w, t) == ScanToCallback(Deleted(w, t.i), t.buf, t.i + 1)

\* the user callback returns into handle_message, which returns; in the loop
\* `del self.disjointed_messages[i]` follows, on the list as it is now, and the
\* loop goes on behind position i
Callback_returns ==
    /\ stack # <<>>
    /\ ~Top.in_request
    /\ IF Top.i = 0
       THEN /\ stack' = Below
            /\ UNCHANGED decoderVars
       ELSE IF Top.i > Len(disjointed_messages)
       THEN \* IndexError: list assignment index out of range
            /\ raised' = TRUE
            /\ stack' = Below
            /\ UNCHANGED <<state, disjointed_messages, callback, data, parses,
                           handled, calls, tried, removed, merged, n>>
       ELSE /\ SetDelegate(Resume(Delegate, Top).w)
            /\ stack' = Push(Below, Top.buf, Resume(Delegate, Top))
            /\ UNCHANGED <<data, n>>
    /\ UNCHANGED <<begun_inside, splitVars, sessionVars>>

ReentrantNext ==
    \/ Nested_handleNotification
    \/ Callback_request
    \/ Request_returns
    \/ Callback_returns

SpecReentrant == Init /\ [][ReentrantNext]_vars

\* C12: no handleNotification call begins while another one is in progress,
\* also when the user callback issues request() on the same session.
C12_NoOverlap == begun_inside = 0

\* the stack holds suspended calls only, each with a callback to return into
StackShape ==
    /\ Len(stack) <= n
    /\ stack # <<>> => callback
    /\ \A j \in DOMAIN stack : stack[j].i >= 0
    /\ \A j \in 1..(Len(stack) - 1) : stack[j].in_request

====
